---- MODULE Spec2Model ----
(***************************************************************************)
(* Model of the France Galop engagements scraper (scrape_engagements.js):  *)
(* the change-detection pass of its main routine and the persistence of    *)
(* the seen store (data/seen.json) and of the last-run date                *)
(* (data/last_run.json) across successive cron runs.                       *)
(*                                                                         *)
(* Text is modelled as a sequence of one-character strings, so that norm,  *)
(* keyify and the DP-P test are computed character by character as the     *)
(* JavaScript computes them.                                               *)
(*                                                                         *)
(* Spec is the engagements scraper run by run.  SpecChunk is a call of     *)
(* chunkLines and SpecKey a pair of calls of keyify, on inputs drawn from  *)
(* bounded sets.  SpecAlerts is the race alerts script                     *)
(* (scrape_race_alerts-14.js) run by run, with its files dpp_races.json,   *)
(* stored_races.json and sent_alerts.json.                                 *)
(***************************************************************************)
EXTENDS Integers, Sequences, FiniteSets, TLC

\* ------------------------------------------------------------------ bounds
\* Longest scraped table (rows of the engagements table) of one run.
MaxRows == 2
\* Number of runs of the script in one behaviour.
MaxRuns == 2
\* chunkLines: the most lines of a call, the longest line, the largest maxLen.
MaxLines == 3
MaxLineLen == 3
MaxBudget == 8
\* keyify: the longest horse text of the second record.
MaxKeyLen == 4
\* Race alerts: the runs of the script and the five-minute steps of the
\* clock in one behaviour.
MaxAlertRuns == 3
MaxTicks == 2
MaxTrackRuns == 2
MaxTrackTicks == 2
MaxPending == 2
MaxResultRuns == 2
MaxResults == 2

\* ------------------------------------------------------- program constants
\* The cap of saveSeen, arr.slice(-3000), scaled down so that a store can
\* outgrow it within MaxRuns runs.
SeenCap == 2
\* The cap of saveSentAlerts, Array.from(set).slice(-200), scaled down so
\* that the alerts of one afternoon can outgrow it.
AlertsCap == 2
\* Alert this many minutes before the race.
ALERT_MINUTES_BEFORE == 15

\* ------------------------------------------------------------ text helpers
\* The characters \s matches, among those the model's texts use.
IsSpace(c) == c \in {" ", "\t"}

\* String.prototype.toLowerCase on the letters the model's texts use.
LowerChar(c) ==
  CASE c = "A" -> "a"
    [] c = "B" -> "b"
    [] c = "C" -> "c"
    [] c = "D" -> "d"
    [] c = "E" -> "e"
    [] c = "G" -> "g"
    [] c = "N" -> "n"
    [] c = "P" -> "p"
    [] c = "T" -> "t"
    [] OTHER -> c

RECURSIVE toLowerCase(_)
toLowerCase(s) ==
  IF s = <<>> THEN <<>> ELSE <<LowerChar(Head(s))>> \o toLowerCase(Tail(s))

\* .replace(/\s+/g, ' '): every maximal run of whitespace becomes one space.
RECURSIVE CollapseSpaces(_)
CollapseSpaces(s) ==
  IF s = <<>> THEN <<>>
  ELSE IF IsSpace(Head(s))
       THEN IF Tail(s) # <<>> /\ IsSpace(Head(Tail(s)))
            THEN CollapseSpaces(Tail(s))
            ELSE <<" ">> \o CollapseSpaces(Tail(s))
       ELSE <<Head(s)>> \o CollapseSpaces(Tail(s))

\* .replace(/[']/g, "'"): the character class holds the ASCII apostrophe
\* only, which is replaced by itself.
ApostropheChar(c) == IF c = "'" THEN "'" ELSE c

RECURSIVE ReplaceApostrophes(_)
ReplaceApostrophes(s) ==
  IF s = <<>> THEN <<>>
  ELSE <<ApostropheChar(Head(s))>> \o ReplaceApostrophes(Tail(s))

RECURSIVE TrimLeft(_)
TrimLeft(s) ==
  IF s # <<>> /\ IsSpace(Head(s)) THEN TrimLeft(Tail(s)) ELSE s

RECURSIVE TrimRight(_)
TrimRight(s) ==
  IF s # <<>> /\ IsSpace(s[Len(s)])
  THEN TrimRight(SubSeq(s, 1, Len(s) - 1))
  ELSE s

trim(s) == TrimRight(TrimLeft(s))

norm(s) == trim(ReplaceApostrophes(CollapseSpaces(s)))

\* Array.prototype.join(' | ') over the five identity fields.
JoinFields(obj) ==
  obj.horse \o <<" ", "|", " ">> \o obj.date \o <<" ", "|", " ">> \o obj.track
    \o <<" ", "|", " ">> \o obj.race \o <<" ", "|", " ">> \o obj.dist

keyifyKeepsCase(obj) == norm(JoinFields(obj))

keyify(obj) == toLowerCase(norm(JoinFields(obj)))

\* /^DP-P/i.test(statut)
IsDPP(statut) ==
  /\ Len(statut) >= 4
  /\ toLowerCase(SubSeq(statut, 1, 4)) = <<"d", "p", "-", "p">>

\* ------------------------------------------------------------ scraped rows
ENG == <<"E", "N", "G">>
DPP == <<"D", "P", "-", "P">>
dpp == <<"d", "p", "-", "p">>

Cells(horse, statut, raceUrl) ==
  [horse |-> horse, horseUrl |-> "", statut |-> statut, date |-> <<"1">>,
   track |-> <<"T">>, race |-> <<>>, raceUrl |-> raceUrl, dist |-> <<>>]

\* The table rows (inner texts of the td cells, and the hrefs) a scrape of
\* the trainer page can return.  Horse "a " is horse "A" as another page load
\* may render it: other letter case, trailing blank, another race link.  The
\* row whose horse cell is blank is a row scrape() counts as invalid.
TableRows ==
  { Cells(<<" ">>, DPP, ""),
    Cells(<<"A">>, ENG, ""), Cells(<<"A">>, DPP, ""),
    Cells(<<"a", " ">>, ENG, "u"), Cells(<<"a", " ">>, dpp, "u"),
    Cells(<<"B">>, ENG, ""), Cells(<<"B">>, DPP, ""),
    Cells(<<"C">>, ENG, ""), Cells(<<"C">>, DPP, "") }

Tables == UNION { [1..n -> TableRows] : n \in 0..MaxRows }

\* scrape(): every cell goes through norm, and a row is kept only when it
\* has a horse, a date and a race or a track.
ScrapeRow(tds) ==
  [horse |-> norm(tds.horse), horseUrl |-> tds.horseUrl,
   statut |-> norm(tds.statut), date |-> norm(tds.date),
   track |-> norm(tds.track), race |-> norm(tds.race),
   raceUrl |-> tds.raceUrl, dist |-> norm(tds.dist)]

ValidRowAcceptsAll(rec) == TRUE

ValidRow(rec) ==
  rec.horse # <<>> /\ rec.date # <<>> /\ (rec.race # <<>> \/ rec.track # <<>>)

\* skippedCount: the rows of the table that scrape() did not keep.
RECURSIVE CountSkipped(_)
CountSkipped(table) ==
  IF table = <<>> THEN 0
  ELSE (IF ValidRow(ScrapeRow(Head(table))) THEN 0 ELSE 1) + CountSkipped(Tail(table))

RECURSIVE scrape(_)
scrape(table) ==
  IF table = <<>> THEN <<>>
  ELSE LET rec == ScrapeRow(Head(table))
       IN  (IF ValidRow(rec) THEN <<rec>> ELSE <<>>) \o scrape(Tail(table))

\* The rows scrape() can return, and keyify and scrape tabulated over their
\* inputs: each key and each scrape is computed once.
ScrapedRows == { ScrapeRow(tds) : tds \in TableRows }

KeyTable == [r \in ScrapedRows |-> keyify(r)]

KeyOf(r) == KeyTable[r]

ScrapeTable == [table \in Tables |-> scrape(table)]

SkippedTable == [table \in Tables |-> CountSkipped(table)]

\* ------------------------------------------------------ the seen store Map
\* A JavaScript Map is a list of [key, value] entries in insertion order.
MapKeys(map) == { map[i].k : i \in 1..Len(map) }

MapHas(map, k) == k \in MapKeys(map)

MapGet(map, k) ==
  LET i == CHOOSE i \in 1..Len(map) : map[i].k = k IN map[i].v

MapSetAppends(map, k, v) == Append(map, [k |-> k, v |-> v])

\* Map.prototype.set: an existing key keeps its place and gets the new
\* value, a new key is appended.
MapSet(map, k, v) ==
  IF MapHas(map, k)
  THEN [i \in 1..Len(map) |-> IF map[i].k = k THEN [k |-> k, v |-> v] ELSE map[i]]
  ELSE Append(map, [k |-> k, v |-> v])

\* new Map(JSON.parse(txt)): the entries of the file, set one after another.
RECURSIVE MapFromEntries(_, _)
MapFromEntries(map, entries) ==
  IF entries = <<>> THEN map
  ELSE MapFromEntries(MapSet(map, Head(entries).k, Head(entries).v), Tail(entries))

loadSeen(file) == MapFromEntries(<<>>, file)

\* Array.from(map.entries()).slice(-SeenCap)
saveSeen(map) ==
  IF Len(map) <= SeenCap THEN map
  ELSE SubSeq(map, Len(map) - SeenCap + 1, Len(map))

\* ------------------------------------------------------- the reconcile pass
\* In-run de-dupe: the first row of each key is kept, in table order.
RECURSIVE DedupeFrom(_, _, _)
DedupeFrom(rows, runSeen, unique) ==
  IF rows = <<>> THEN unique
  ELSE LET r == Head(rows)
           k == KeyOf(r)
       IN  IF k \notin runSeen
           THEN DedupeFrom(Tail(rows), runSeen \cup {k}, Append(unique, r))
           ELSE DedupeFrom(Tail(rows), runSeen, unique)

\* Rank n of a set of indexes: its n-th smallest member.
NthOf(idx, n) == CHOOSE i \in idx : Cardinality({j \in idx : j <= i}) = n

SubSeqAt(s, idx) == [n \in 1..Cardinality(idx) |-> s[NthOf(idx, n)]]

DedupeLastWins(rows) ==
  SubSeqAt(rows, {i \in 1..Len(rows) :
                   \A j \in (i + 1)..Len(rows) : KeyOf(rows[j]) # KeyOf(rows[i])})

Dedupe(rows) == DedupeFrom(rows, {}, <<>>)

Entry(statut, r, now) ==
  [statut |-> statut, last |-> now, horseUrl |-> r.horseUrl, raceUrl |-> r.raceUrl]

\* if (FORCE_POST) ... else if (!prev) ... else if (prev.statut !== r.statut)
\* ... else ...: the branch the loop takes for row r.
BranchIgnoresForce(seenMap, r, force) ==
  IF ~MapHas(seenMap, KeyOf(r)) THEN "new"
  ELSE IF MapGet(seenMap, KeyOf(r)).statut # r.statut THEN "changed"
  ELSE "unchanged"

Branch(seenMap, r, force) ==
  IF force THEN "force"
  ELSE IF ~MapHas(seenMap, KeyOf(r)) THEN "new"
  ELSE IF MapGet(seenMap, KeyOf(r)).statut # r.statut THEN "changed"
  ELSE "unchanged"

\* acc holds seen, newRows and changedRows; k is KeyOf(r), now is Date.now().
OnForceKeepsStored(acc, r, k, now) ==
  [acc EXCEPT !.newRows = Append(@, r),
              !.seen = IF MapHas(@, k)
                       THEN MapSet(@, k, Entry(MapGet(@, k).statut, r, now))
                       ELSE MapSet(@, k, Entry(r.statut, r, now))]

OnForce(acc, r, k, now) ==
  [acc EXCEPT !.newRows = Append(@, r),
              !.seen = MapSet(@, k, Entry(r.statut, r, now))]

OnNewNotStored(acc, r, k, now) ==
  [acc EXCEPT !.newRows = Append(@, r)]

OnNew(acc, r, k, now) ==
  [acc EXCEPT !.newRows = Append(@, r),
              !.seen = MapSet(@, k, Entry(r.statut, r, now))]

OnChangedOldStatutAfterSet(acc, r, k, now) ==
  [acc EXCEPT !.changedRows = Append(@, [row |-> r, oldStatut |-> r.statut]),
              !.seen = MapSet(@, k, Entry(r.statut, r, now))]

OnChangedNotStored(acc, r, k, now) ==
  [acc EXCEPT !.changedRows =
                Append(@, [row |-> r, oldStatut |-> MapGet(acc.seen, k).statut])]

\* { ...r, oldStatut: prev.statut } is the pair of the row and the old statut.
OnChanged(acc, r, k, now) ==
  [acc EXCEPT !.changedRows =
                Append(@, [row |-> r, oldStatut |-> MapGet(acc.seen, k).statut]),
              !.seen = MapSet(@, k, Entry(r.statut, r, now))]

OnUnchangedNoRefresh(acc, r, k, now) == acc

OnUnchanged(acc, r, k, now) ==
  [acc EXCEPT !.seen = MapSet(@, k, Entry(MapGet(acc.seen, k).statut, r, now))]

\* One iteration of the classification loop over unique.
ClassifyRow(acc, r, force, now) ==
  LET k == KeyOf(r)
      branch == Branch(acc.seen, r, force)
  IN  CASE branch = "force" -> OnForce(acc, r, k, now)
        [] branch = "new" -> OnNew(acc, r, k, now)
        [] branch = "changed" -> OnChanged(acc, r, k, now)
        [] OTHER -> OnUnchanged(acc, r, k, now)

RECURSIVE ClassifyFrom(_, _, _, _)
ClassifyFrom(acc, unique, force, now) ==
  IF unique = <<>> THEN acc
  ELSE ClassifyFrom(ClassifyRow(acc, Head(unique), force, now), Tail(unique), force, now)

Classify(unique, seen0, force, now) ==
  ClassifyFrom([seen |-> seen0, newRows |-> <<>>, changedRows |-> <<>>],
               unique, force, now)

RECURSIVE FilterDPP(_)
FilterDPP(rs) ==
  IF rs = <<>> THEN <<>>
  ELSE (IF IsDPP(Head(rs).statut) THEN <<Head(rs)>> ELSE <<>>) \o FilterDPP(Tail(rs))

\* changedRows.filter(DP-P): the entries carry oldStatut besides the row's own
\* fields; the PARTANTS lines read the row's fields only.
RECURSIVE ChangedToDPP(_)
ChangedToDPP(cs) ==
  IF cs = <<>> THEN <<>>
  ELSE (IF IsDPP(Head(cs).row.statut) THEN <<Head(cs).row>> ELSE <<>>)
         \o ChangedToDPP(Tail(cs))

DeclaredParticipantsNewChangedOnly(first, unique, newRs, changedRs) ==
  FilterDPP(newRs) \o ChangedToDPP(changedRs)

\* A PARTANTS list that takes every DP-P row of the batch on every run.
DeclaredParticipantsEveryRun(first, unique, newRs, changedRs) ==
  FilterDPP(unique)

\* The PARTANTS list: every DP-P row of the day's first run, otherwise the
\* DP-P rows among the new and the changed ones.
DeclaredParticipants(first, unique, newRs, changedRs) ==
  IF first THEN FilterDPP(unique)
  ELSE FilterDPP(newRs) \o ChangedToDPP(changedRs)

\* The payloads of a run, in posting order.  A payload is a chunk of one
\* section: its header (the section title and today's date) and its lines.
\* With at most MaxRows short lines chunkLines returns a single chunk for
\* each non-empty section.  A line is determined by the fields of its row
\* (and the old statut in the update section): the cleaners the line goes
\* through leave the short texts of TableRows as they are.
Payloads(day, dp, newRs, changedRs) ==
  (IF dp # <<>>
   THEN <<[section |-> "PARTANTS", date |-> day, lines |-> dp]>> ELSE <<>>)
    \o (IF newRs # <<>>
        THEN <<[section |-> "NEW", date |-> day, lines |-> newRs]>> ELSE <<>>)
    \o (IF changedRs # <<>>
        THEN <<[section |-> "UPD", date |-> day, lines |-> changedRs]>> ELSE <<>>)

\* ------------------------------------------------- the records keyify gets
\* The characters of a horse cell: letters in both cases, the two blanks,
\* and the typographic apostrophe U+2019, written "^" here.
KeyChars == {"a", "A", " ", "\t", "^"}

KeyTexts == UNION { [1..n -> KeyChars] : n \in 0..MaxKeyLen }

\* The first record of a pair, and the records it is compared with.
KeyRecordsA ==
  { [Cells(h, ENG, "") EXCEPT !.dist = <<"a">>] :
      h \in { <<>>, <<"a">>, <<"a", " ", "a">>, <<"a", "'", "a">> } }

KeyRecordsB ==
  { [Cells(h, st, u) EXCEPT !.track = t, !.dist = d] :
      h \in KeyTexts, st \in {ENG, DPP}, u \in {"", "u"},
      t \in { <<"T">>, <<" ", "t", "\t">> },
      d \in { <<"a">>, <<"A", " ">>, <<>> } }

\* ------------------------------------------------------------- race alerts
\* The DP-P races dpp_races.json can list: two horses in race r1, one in r2
\* and in r3, all three races on day 1, and one horse in race r4 of day 2.
RaceA1 == [horse |-> "A", raceUrl |-> "r1", date |-> 1]
RaceB1 == [horse |-> "B", raceUrl |-> "r1", date |-> 1]
RaceC2 == [horse |-> "C", raceUrl |-> "r2", date |-> 1]
RaceD3 == [horse |-> "D", raceUrl |-> "r3", date |-> 1]
RaceE4 == [horse |-> "E", raceUrl |-> "r4", date |-> 2]

RaceUrls == {"r1", "r2", "r3", "r4"}

\* The post time the page of a race shows.
PagePostTime(raceUrl) ==
  IF raceUrl = "r3" THEN [hour |-> 10, minute |-> 5]
  ELSE IF raceUrl = "r4" THEN [hour |-> 9, minute |-> 50]
  ELSE [hour |-> 10, minute |-> 0]

\* The lists of races dpp_races.json can hold.
DppLists ==
  { <<>>, <<RaceA1, RaceB1, RaceC2, RaceD3>>, <<RaceA1, RaceD3, RaceE4>>, <<RaceC2>> }

\* The URLs and the horses of a list of races.
UrlsOf(races) == { races[i].raceUrl : i \in 1..Len(races) }

HorsesOf(races) == { races[i].horse : i \in 1..Len(races) }

\* The first minute of the day the clock of the model shows: 09:45.
StartMinute == 585

\* getParisTime(): date, hour and minute of the clock.
getParisTime(now) ==
  [date |-> now.date, hour |-> now.minutes \div 60, minute |-> now.minutes % 60]

\* filterPastRaces: a race of a later day, or of today with a post time
\* after now, is kept.
KeepsRace(race, parisTime) ==
  IF race.date > parisTime.date THEN TRUE
  ELSE IF race.date = parisTime.date
       THEN race.postTime.hour * 60 + race.postTime.minute
              > parisTime.hour * 60 + parisTime.minute
       ELSE FALSE

RECURSIVE filterPastRaces(_, _)
filterPastRaces(races, parisTime) ==
  IF races = <<>> THEN <<>>
  ELSE (IF KeepsRace(Head(races), parisTime) THEN <<Head(races)>> ELSE <<>>)
         \o filterPastRaces(Tail(races), parisTime)

\* The null getPostTime returns.
NullTime == [hour |-> -1, minute |-> -1]

\* getPostTime: the post time of the page, or null when every attempt
\* failed or the page shows no time.
getPostTime(raceUrl, fetchOk) ==
  IF fetchOk[raceUrl] THEN PagePostTime(raceUrl) ELSE NullTime

\* dpp_races.json: absent, not parseable, or holding a list of races.
DppFile(status, races) == [status |-> status, races |-> races]

loadDPPRacesEmptyOnError(file) ==
  IF file.status = "ok" THEN [null |-> FALSE, races |-> file.races]
  ELSE [null |-> FALSE, races |-> <<>>]

\* loadDPPRaces: data.races, or null when the file cannot be read or parsed.
loadDPPRaces(file) ==
  IF file.status = "ok" THEN [null |-> FALSE, races |-> file.races]
  ELSE [null |-> TRUE, races |-> <<>>]

\* The loop of updateRaceData: racesWithTimes.
RECURSIVE RacesWithTimes(_, _)
RacesWithTimes(dppRaces, fetchOk) ==
  IF dppRaces = <<>> THEN <<>>
  ELSE LET race == Head(dppRaces)
           postTime == getPostTime(race.raceUrl, fetchOk)
       IN  (IF race.raceUrl = "" THEN <<>>
            ELSE IF postTime # NullTime
                 THEN <<[horse |-> race.horse, raceUrl |-> race.raceUrl,
                         date |-> race.date, postTime |-> postTime]>>
                 ELSE <<>>)
             \o RacesWithTimes(Tail(dppRaces), fetchOk)

\* updateRaceData: what the call returns.
updateRaceDataReturns(dppFile) ==
  IF loadDPPRaces(dppFile).null THEN "false" ELSE "true"

\* updateRaceData: the races of stored_races.json after the call.
updateRaceData(dppFile, stored, parisTime, fetchOk) ==
  LET dppRaces == loadDPPRaces(dppFile)
  IN  IF dppRaces.null THEN stored
      ELSE IF dppRaces.races = <<>> THEN <<>>
      ELSE filterPastRaces(RacesWithTimes(dppRaces.races, fetchOk), parisTime)

\* loadSentAlerts: the Set of the URLs of the file, in insertion order.
loadSentAlerts(file) == file

SetHas(set, x) == \E i \in 1..Len(set) : set[i] = x

\* Set.prototype.add
SetAdd(set, x) == IF SetHas(set, x) THEN set ELSE Append(set, x)

\* saveSentAlerts: Array.from(set).slice(-200)
saveSentAlerts(set) ==
  IF Len(set) <= AlertsCap THEN set
  ELSE SubSeq(set, Len(set) - AlertsCap + 1, Len(set))

\* The minute of the day from which a race is alerted.
AlertMinutes(postTime) ==
  LET alertMinute == postTime.minute - ALERT_MINUTES_BEFORE
  IN  IF alertMinute < 0
      THEN (postTime.hour - 1) * 60 + (alertMinute + 60)
      ELSE postTime.hour * 60 + alertMinute

InAlertWindowAnyTimeBefore(race, parisTime) ==
  parisTime.hour * 60 + parisTime.minute
    < race.postTime.hour * 60 + race.postTime.minute

InAlertWindow(race, parisTime) ==
  LET currentMinutes == parisTime.hour * 60 + parisTime.minute
      raceMinutes == race.postTime.hour * 60 + race.postTime.minute
  IN  currentMinutes >= AlertMinutes(race.postTime) /\ currentMinutes < raceMinutes

\* One round of the for loop of checkAndSendAlerts.  tried lists the posts
\* of the run, each with the answer of the webhook.
AlertStepAddsAlways(race, loop, parisTime, postOk) ==
  IF SetHas(loop.sentAlerts, race.raceUrl) THEN loop
  ELSE IF race.date # parisTime.date THEN loop
  ELSE IF InAlertWindow(race, parisTime)
       THEN [sentAlerts |-> SetAdd(loop.sentAlerts, race.raceUrl),
             tried |-> Append(loop.tried,
                              [raceUrl |-> race.raceUrl, ok |-> postOk[race.horse]])]
       ELSE loop

AlertStep(race, loop, parisTime, postOk) ==
  IF SetHas(loop.sentAlerts, race.raceUrl) THEN loop
  ELSE IF race.date # parisTime.date THEN loop
  ELSE IF InAlertWindow(race, parisTime)
       THEN [sentAlerts |-> IF postOk[race.horse]
                            THEN SetAdd(loop.sentAlerts, race.raceUrl)
                            ELSE loop.sentAlerts,
             tried |-> Append(loop.tried,
                              [raceUrl |-> race.raceUrl, ok |-> postOk[race.horse]])]
       ELSE loop

RECURSIVE AlertLoop(_, _, _, _)
AlertLoop(races, loop, parisTime, postOk) ==
  IF races = <<>> THEN loop
  ELSE AlertLoop(Tail(races), AlertStep(Head(races), loop, parisTime, postOk),
                 parisTime, postOk)

\* checkAndSendAlerts: sent_alerts.json after the call and the posts made.
checkAndSendAlerts(sentFile, stored, parisTime, postOk) ==
  IF stored = <<>> THEN [sentFile |-> sentFile, tried |-> <<>>]
  ELSE LET loop == AlertLoop(filterPastRaces(stored, parisTime),
                             [sentAlerts |-> loadSentAlerts(sentFile), tried |-> <<>>],
                             parisTime, postOk)
       IN  [sentFile |-> saveSentAlerts(loop.sentAlerts), tried |-> loop.tried]

\* -------------------------------------------------------------- chunkLines
\* buf.join('\n')
RECURSIVE JoinLines(_)
JoinLines(buf) ==
  IF buf = <<>> THEN <<>>
  ELSE IF Len(buf) = 1 THEN Head(buf)
  ELSE Head(buf) \o <<"\n">> \o JoinLines(Tail(buf))

\* header + '\n' + buf.join('\n')
MakeChunk(header, buf) == header \o <<"\n">> \o JoinLines(buf)

\* The for loop of chunkLines and the push that follows it.
RECURSIVE ChunkLoop(_, _, _, _, _, _)
ChunkLoop(header, lines, maxLen, chunks, buf, len) ==
  IF lines = <<>>
  THEN IF buf # <<>> THEN Append(chunks, MakeChunk(header, buf)) ELSE chunks
  ELSE LET ln == Head(lines)
       IN  IF len + Len(ln) + 1 > maxLen
           THEN ChunkLoop(header, Tail(lines), maxLen,
                          Append(chunks, MakeChunk(header, buf)), <<ln>>,
                          Len(header) + 1 + Len(ln) + 1)
           ELSE ChunkLoop(header, Tail(lines), maxLen, chunks, Append(buf, ln),
                          len + Len(ln) + 1)

chunkLinesForgetsHeader(header, lines, maxLen) ==
  ChunkLoop(header, lines, maxLen, <<>>, <<>>, 0)

chunkLines(header, lines, maxLen) ==
  ChunkLoop(header, lines, maxLen, <<>>, <<>>, Len(header) + 1)

\* The texts chunkLines is called with: a header, lines without a line
\* break, told apart by their length.
RECURSIVE Xs(_)
Xs(n) == IF n = 0 THEN <<>> ELSE <<"x">> \o Xs(n - 1)

ChunkHeaders == { <<>>, <<"H">> }

ChunkLineTexts == { Xs(n) : n \in 0..MaxLineLen }

ChunkLineLists == UNION { [1..n -> ChunkLineTexts] : n \in 0..MaxLines }

\* ------------------------------------------------- tracking reports: data
\* posted_tracking.json keeps the last 500 URLs; the model keeps PostedCap.
PostedCap == 1

\* const FORTY_FIVE_MINUTES = 45 * 60 * 1000, in minutes here as every time
\* of the tracking model.
FORTY_FIVE_MINUTES == 45

\* A result as scrape_results.js scrapes it: the fields of its key, and the
\* link of its race.
ResultOf(horse, raceUrl) ==
  [horse |-> horse, date |-> <<"1">>, hippodrome |-> <<"T">>,
   distance |-> <<"1">>, raceUrl |-> raceUrl]

TrackUrls == {"u1", "u2", "u3"}

\* The new results of one run of the results scraper: one horse, or two
\* horses of the same race.
TrackBatches ==
  { <<ResultOf(<<"A">>, "u1")>>,
    <<ResultOf(<<"A">>, "u1"), ResultOf(<<"B">>, "u1")>>,
    <<ResultOf(<<"C">>, "u2")>>,
    <<ResultOf(<<"D">>, "u3")>> }

\* The entry scrape_results.js pushes to the pending queue.
PendingEntry(r, now) ==
  [horse |-> r.horse, date |-> r.date, raceUrl |-> r.raceUrl,
   hippodrome |-> r.hippodrome, addedAt |-> now]

\* The queueing loop of scrape_results.js: existingRaceUrls is computed once,
\* before the loop, from the queue as loaded.
RECURSIVE QueueFrom(_, _, _, _)
QueueFrom(pending, existingRaceUrls, newResults, now) ==
  IF newResults = <<>> THEN pending
  ELSE LET r == Head(newResults)
       IN  QueueFrom(IF r.raceUrl # "" /\ r.raceUrl \notin existingRaceUrls
                     THEN Append(pending, PendingEntry(r, now))
                     ELSE pending,
                     existingRaceUrls, Tail(newResults), now)

QueueTracking(pending, newResults, now) ==
  QueueFrom(pending, UrlsOf(pending), newResults, now)

loadPendingTracking(file) == file

savePendingTracking(arr) == arr

loadPostedTracking(file) == file

\* Array.from(set).slice(-500)
savePostedTracking(set) ==
  IF Len(set) <= PostedCap THEN set
  ELSE SubSeq(set, Len(set) - PostedCap + 1, Len(set))

\* The href checkForTracking returns for a race page that has a report.
TrackingHref(raceUrl) == <<"Tracking", raceUrl>>

\* One iteration of the loop over pending; has tells whether checkForTracking
\* returns a link for the race.  skippedPosted and skippedOld are the races
\* of the two "removing from queue" log lines.
TrackStep(acc, race, now, has) ==
  IF SetHas(acc.posted, race.raceUrl)
  THEN [acc EXCEPT !.skippedPosted = Append(@, race)]
  ELSE IF now - race.addedAt > FORTY_FIVE_MINUTES
       THEN [acc EXCEPT !.skippedOld = Append(@, race)]
       ELSE IF has
            THEN [acc EXCEPT !.found = Append(@, [race |-> race,
                                                  trackingUrl |-> TrackingHref(race.raceUrl)]),
                             !.posted = SetAdd(@, race.raceUrl),
                             !.checked = Append(@, race.raceUrl)]
            ELSE [acc EXCEPT !.stillPending = Append(@, race),
                             !.checked = Append(@, race.raceUrl)]

\* The positions of the queue whose race is neither in the posted set as
\* loaded nor too old: the only ones checkForTracking can be called for.
CheckIdx(pending, posted, now) ==
  { i \in 1..Len(pending) :
      /\ ~SetHas(posted, pending[i].raceUrl)
      /\ now - pending[i].addedAt <= FORTY_FIVE_MINUTES }

RECURSIVE TrackLoopFrom(_, _, _, _, _)
TrackLoopFrom(acc, pending, i, now, has) ==
  IF i > Len(pending) THEN acc
  ELSE TrackLoopFrom(TrackStep(acc, pending[i], now,
                               i \in DOMAIN has /\ has[i]),
                     pending, i + 1, now, has)

TrackLoop(pending, posted, now, has) ==
  TrackLoopFrom([posted |-> posted, found |-> <<>>, stillPending |-> <<>>,
                 skippedPosted |-> <<>>, skippedOld |-> <<>>, checked |-> <<>>],
                pending, 1, now, has)

\* The answers of the webhook to the posts of a run.
PostAnswers(n) == [1..n -> {"ok", "refused"}]

\* ------------------------------------------------------- results: data
\* seen_results.json keeps the last 2000 entries, race_history.json the
\* first 300; the model keeps ResultsSeenCap and HistoryCap.
ResultsSeenCap == 2

HistoryCap == 3

\* The rows scrapeResults can return: horse A, the same horse as another
\* page load may render it, a second horse of the same race, and a horse
\* whose row has no race link.
ResultRows ==
  { ResultOf(<<"A">>, "u1"), ResultOf(<<"a">>, "u1"),
    ResultOf(<<"B">>, "u1"), ResultOf(<<"C">>, "") }

ResultPages == UNION { [1..n -> ResultRows] : n \in 0..MaxResults }

\* keyify of scrape_results.js:
\* norm([horse, date, hippodrome, distance].join(' | ')).toLowerCase()
keyifyResult(obj) ==
  toLowerCase(norm(obj.horse \o <<" ", "|", " ">> \o obj.date \o <<" ", "|", " ">>
                     \o obj.hippodrome \o <<" ", "|", " ">> \o obj.distance))

ResultKeyTable == [r \in ResultRows |-> keyifyResult(r)]

ResultKey(r) == ResultKeyTable[r]

\* String.prototype.toUpperCase on the letters of the model's horse names.
UpperChar(c) ==
  CASE c = "a" -> "A"
    [] c = "b" -> "B"
    [] c = "c" -> "C"
    [] OTHER -> c

\* cleanHorseNameForSheet on a name of one word with none of the suffixes it
\* strips (Sup., country code, sex and age): blanks collapsed and trimmed,
\* lower case, first letter in upper case.
cleanHorseNameForSheet(name) ==
  LET cleaned == toLowerCase(trim(CollapseSpaces(name)))
  IN  IF cleaned = <<>> THEN <<>> ELSE <<UpperChar(Head(cleaned))>> \o Tail(cleaned)

loadSeenResults(file) == MapFromEntries(<<>>, file)

\* Array.from(map.entries()).slice(-2000)
saveSeenResults(map) ==
  IF Len(map) <= ResultsSeenCap THEN map
  ELSE SubSeq(map, Len(map) - ResultsSeenCap + 1, Len(map))

loadRaceHistory(file) == file

\* arr.slice(0, 300)
saveRaceHistory(arr) ==
  IF Len(arr) <= HistoryCap THEN arr ELSE SubSeq(arr, 1, HistoryCap)

\* A loop body that takes a result for new without recording its key.
NewResultStepNoSet(acc, r, force, now) ==
  IF force \/ ~MapHas(acc.seen, ResultKey(r))
  THEN [acc EXCEPT !.newResults = Append(@, r)]
  ELSE acc

\* One iteration of the loop over results.
NewResultStep(acc, r, force, now) ==
  IF force \/ ~MapHas(acc.seen, ResultKey(r))
  THEN [acc EXCEPT !.newResults = Append(@, r),
                   !.seen = MapSet(@, ResultKey(r), [date |-> r.date, timestamp |-> now])]
  ELSE acc

RECURSIVE NewResultsFrom(_, _, _, _)
NewResultsFrom(acc, results, force, now) ==
  IF results = <<>> THEN acc
  ELSE NewResultsFrom(NewResultStep(acc, Head(results), force, now),
                      Tail(results), force, now)

\* The entry of race_history.json for a result (the fields the model's
\* results have).
HistoryEntry(r, now) ==
  [horse |-> cleanHorseNameForSheet(r.horse), date |-> r.date,
   track |-> r.hippodrome, distance |-> r.distance, raceUrl |-> r.raceUrl,
   scrapedAt |-> now]

\* raceHistory.unshift(...) for each new result in turn.
RECURSIVE UnshiftAll(_, _, _)
UnshiftAll(raceHistory, newResults, now) ==
  IF newResults = <<>> THEN raceHistory
  ELSE UnshiftAll(<<HistoryEntry(Head(newResults), now)>> \o raceHistory,
                  Tail(newResults), now)

\* What the run finds in dpp_races.json: no race dated today, some, or a
\* file it cannot read.
DppToday == {"none", "some", "unreadable"}

\* The early exit: dpp_races.json is readable, lists no race dated today,
\* and FORCE_POST is off.
SkipsScrape(dppToday, force) == dppToday = "none" /\ ~force

\* Everything main computes before it posts.
ResultsLocals(page, seenFile, historyFile, force, now) ==
  LET l == NewResultsFrom([seen |-> loadSeenResults(seenFile), newResults |-> <<>>],
                          page, force, now)
  IN  [results |-> page, seen |-> l.seen, newResults |-> l.newResults,
       raceHistory |-> UnshiftAll(loadRaceHistory(historyFile), l.newResults, now)]

\* ------------------------------------------------------------------- state
VARIABLES
  seenFile,              \* data/seen.json: the saved entries, in file order
  lastRunFile,           \* data/last_run.json: the saved date, 0 when absent
  clock,                 \* Date.now() of the current run
  today,                 \* the UTC date of the current run
  FORCE_POST,            \* the environment switch of the current process
  phase,                 \* "idle", "running" or "exited"
  seenLoaded,            \* the Map loadSeen returned, before the loop
  pageTable,             \* the tbody rows the trainer page showed to scrape()
  skippedCount,          \* the rows scrape() skipped as invalid
  rows,                  \* what scrape() returned
  unique,                \* rows after the in-run de-dupe
  seen,                  \* the Map after the classification loop
  newRows,
  changedRows,
  declaredParticipants,
  isFirstRunToday,
  delivered,             \* the payloads the webhook accepted, in order
  exitCode               \* -1 while the process has not exited

\* A call of chunkLines.
VARIABLES
  chHeader,              \* the header argument
  chLines,               \* the lines argument
  chMaxLen,              \* the maxLen argument
  chChunks,              \* the chunks returned
  chDone                 \* whether the call has returned

chunkVars == <<chHeader, chLines, chMaxLen, chChunks, chDone>>

\* Two calls of keyify.
VARIABLES
  kRecA,                 \* the record of the first call
  kRecB,                 \* the record of the second call
  kKeyA,                 \* the key of the first record
  kKeyB,                 \* the key of the second record
  kDone                  \* whether the calls have returned

keyVars == <<kRecA, kRecB, kKeyA, kKeyB, kDone>>

\* The race alerts script, its files and the channel it posts to.
VARIABLES
  aDppFile,              \* data/dpp_races.json: its status and its races
  aDppFresh,             \* whether dpp_races.json is under 30 minutes old
  aStored,               \* data/stored_races.json: the races
  aSent,                 \* data/sent_alerts.json: the URLs, in order
  aNow,                  \* the clock: Paris date and minute of the day
  aRuns,                 \* the runs of the script so far
  aFetchOk,              \* last run: whether the fetch of a URL gave a time
  aUpdated,              \* last run: what updateRaceData returned, if called
  aTried,                \* last run: the posts and their answers
  aPosted                \* the alerts in the channel: how many of each URL

alertVars == <<aDppFile, aDppFresh, aStored, aSent, aNow, aRuns, aFetchOk,
               aUpdated, aTried, aPosted>>

VARIABLES
  pendingFile,           \* data/pending_tracking.json: the queue
  postedFile,            \* data/posted_tracking.json: the URLs, in order
  tNow,                  \* the clock of the tracking checker, in minutes
  tRuns,                 \* the runs of check_tracking_reports.js so far
  tLoaded,               \* last run: the queue as loaded
  tPostedLoaded,         \* last run: the posted set as loaded
  tSkippedPosted,        \* last run: races logged as already posted
  tSkippedOld,           \* last run: races logged as over the wait limit
  tChecked,              \* last run: the URLs checkForTracking was called for
  tFound,                \* last run: found
  tStillPending,         \* last run: stillPending
  tRes,                  \* last run: the outcomes of the posts, in order
  tExit,                 \* last run: how the process ended
  tDelivered             \* the reports in the channel: how many of each URL

trackVars == <<pendingFile, postedFile, tNow, tRuns, tLoaded, tPostedLoaded,
               tSkippedPosted, tSkippedOld, tChecked, tFound, tStillPending,
               tRes, tExit, tDelivered>>

VARIABLES
  rSeenFile,             \* data/seen_results.json: the entries, in order
  rHistoryFile,          \* data/race_history.json: newest first
  rClock,                \* the runs of scrape_results.js so far, and its time
  rFORCE_POST,           \* last run: process.env.FORCE_POST === 'true'
  rResults,              \* last run: results
  rNewResults,           \* last run: newResults
  rPosted,               \* last run: how many results the webhook accepted
  rExit                  \* last run: the exit code, -1 before the first run

resultVars == <<rSeenFile, rHistoryFile, rClock, rFORCE_POST, rResults,
                rNewResults, rPosted, rExit>>

\* What is not the engagements run.
besideMain == <<chunkVars, keyVars, alertVars, trackVars, resultVars>>

engVars == <<seenFile, lastRunFile, clock, today, FORCE_POST, phase, seenLoaded,
          pageTable, skippedCount, rows, unique, seen, newRows, changedRows, declaredParticipants,
          isFirstRunToday, delivered, exitCode>>

vars == <<engVars, chunkVars, keyVars, alertVars, trackVars, resultVars>>

persisted == <<seenFile, lastRunFile>>
process == <<clock, today, FORCE_POST>>

\* No call of chunkLines is under way.
ChunkIdle ==
  /\ chHeader = <<>>
  /\ chLines = <<>>
  /\ chMaxLen = 0
  /\ chChunks = <<>>
  /\ chDone = FALSE

\* No call of keyify outside a run is under way.
KeyIdle ==
  /\ kRecA = Cells(<<>>, ENG, "")
  /\ kRecB = Cells(<<>>, ENG, "")
  /\ kKeyA = <<>>
  /\ kKeyB = <<>>
  /\ kDone = FALSE

\* The race alerts script has not run and has no file.
AlertIdle ==
  /\ aDppFile = DppFile("missing", <<>>)
  /\ aDppFresh = FALSE
  /\ aStored = <<>>
  /\ aSent = <<>>
  /\ aNow = [date |-> 1, minutes |-> StartMinute]
  /\ aRuns = 0
  /\ aFetchOk = <<>>
  /\ aUpdated = "not called"
  /\ aTried = <<>>
  /\ aPosted = [u \in RaceUrls |-> 0]

\* No run of the results scraper has taken place.
ResultsIdle ==
  /\ rSeenFile = <<>>
  /\ rHistoryFile = <<>>
  /\ rClock = 0
  /\ rFORCE_POST = FALSE
  /\ rResults = <<>>
  /\ rNewResults = <<>>
  /\ rPosted = 0
  /\ rExit = -1

\* No run of the tracking checker has taken place.
TrackIdle ==
  /\ pendingFile = <<>>
  /\ postedFile = <<>>
  /\ tNow = 0
  /\ tRuns = 0
  /\ tLoaded = <<>>
  /\ tPostedLoaded = <<>>
  /\ tSkippedPosted = <<>>
  /\ tSkippedOld = <<>>
  /\ tChecked = <<>>
  /\ tFound = <<>>
  /\ tStillPending = <<>>
  /\ tRes = <<>>
  /\ tExit = "none"
  /\ tDelivered = [u \in TrackUrls |-> 0]

\* No engagements run has taken place and none is under way.
MainIdle ==
  /\ seenFile = <<>>
  /\ lastRunFile = 0
  /\ clock = 0
  /\ today = 1
  /\ FORCE_POST = FALSE
  /\ phase = "idle"
  /\ seenLoaded = <<>>
  /\ pageTable = <<>>
  /\ skippedCount = 0
  /\ rows = <<>>
  /\ unique = <<>>
  /\ seen = <<>>
  /\ newRows = <<>>
  /\ changedRows = <<>>
  /\ declaredParticipants = <<>>
  /\ isFirstRunToday = FALSE
  /\ delivered = <<>>
  /\ exitCode = -1

Init == MainIdle /\ ChunkIdle /\ KeyIdle /\ AlertIdle /\ TrackIdle /\ ResultsIdle

\* The scheduler starts a fresh process: nothing of the previous process's
\* memory is left, time has passed, and the environment sets FORCE_POST.
Start(force, nextDay) ==
  /\ phase \in {"idle", "exited"}
  /\ clock < MaxRuns
  /\ clock' = clock + 1
  /\ today' = IF nextDay THEN today + 1 ELSE today
  /\ FORCE_POST' = force
  /\ phase' = "running"
  /\ seenLoaded' = <<>>
  /\ pageTable' = <<>>
  /\ skippedCount' = 0
  /\ rows' = <<>>
  /\ unique' = <<>>
  /\ seen' = <<>>
  /\ newRows' = <<>>
  /\ changedRows' = <<>>
  /\ declaredParticipants' = <<>>
  /\ isFirstRunToday' = FALSE
  /\ delivered' = <<>>
  /\ exitCode' = -1
  /\ UNCHANGED <<persisted, besideMain>>

\* Everything main computes before it posts: from the two files as they are
\* on disk, the date and time of the run, the FORCE_POST switch and the table
\* the page shows.
MainLocals(table, file, lastRunDate, day, force, now) ==
  LET seen0 == loadSeen(file)
      first == lastRunDate # day
      rs == ScrapeTable[table]
      uq == Dedupe(rs)
      cl == Classify(uq, seen0, force, now)
      dp == DeclaredParticipants(first, uq, cl.newRows, cl.changedRows)
  IN  [seenLoaded |-> seen0, isFirstRunToday |-> first, rows |-> rs,
       pageTable |-> table, skippedCount |-> SkippedTable[table],
       unique |-> uq, seen |-> cl.seen, newRows |-> cl.newRows,
       changedRows |-> cl.changedRows, declaredParticipants |-> dp,
       payloads |-> Payloads(day, dp, cl.newRows, cl.changedRows)]

Pass(table) == MainLocals(table, seenFile, lastRunFile, today, FORCE_POST, clock)

Computed(p) ==
  /\ seenLoaded' = p.seenLoaded
  /\ isFirstRunToday' = p.isFirstRunToday
  /\ pageTable' = p.pageTable
  /\ skippedCount' = p.skippedCount
  /\ rows' = p.rows
  /\ unique' = p.unique
  /\ seen' = p.seen
  /\ newRows' = p.newRows
  /\ changedRows' = p.changedRows
  /\ declaredParticipants' = p.declaredParticipants

\* A run that leaves with nothing to post and writes neither file.
MainNothingToPostSkipsSave(table) ==
  LET p == Pass(table)
  IN  /\ phase = "running"
      /\ p.payloads = <<>>
      /\ Computed(p)
      /\ delivered' = <<>>
      /\ exitCode' = 0
      /\ phase' = "exited"
      /\ UNCHANGED <<persisted, process, besideMain>>

\* main, when the three lists are empty: no post, both files saved, exit 0.
MainNothingToPost(table) ==
  LET p == Pass(table)
  IN  /\ phase = "running"
      /\ p.payloads = <<>>
      /\ Computed(p)
      /\ delivered' = <<>>
      /\ seenFile' = saveSeen(p.seen)
      /\ lastRunFile' = today
      /\ exitCode' = 0
      /\ phase' = "exited"
      /\ UNCHANGED <<process, besideMain>>

\* main, when every payload is accepted: both files saved after the posts.
MainPosted(table) ==
  LET p == Pass(table)
  IN  /\ phase = "running"
      /\ p.payloads # <<>>
      /\ Computed(p)
      /\ delivered' = p.payloads
      /\ seenFile' = saveSeen(p.seen)
      /\ lastRunFile' = today
      /\ exitCode' = 0
      /\ phase' = "exited"
      /\ UNCHANGED <<process, besideMain>>

\* A run that writes both files before it leaves on a refused payload.
MainPostFailedSavesFirst(table) ==
  LET p == Pass(table)
  IN  /\ phase = "running"
      /\ \E failAt \in 1..Len(p.payloads) :
            delivered' = SubSeq(p.payloads, 1, failAt - 1)
      /\ Computed(p)
      /\ seenFile' = saveSeen(p.seen)
      /\ lastRunFile' = today
      /\ exitCode' = 2
      /\ phase' = "exited"
      /\ UNCHANGED <<process, besideMain>>

\* A run that records the date of the run before it posts.
MainPostFailedSavesLastRun(table) ==
  LET p == Pass(table)
  IN  /\ phase = "running"
      /\ \E failAt \in 1..Len(p.payloads) :
            delivered' = SubSeq(p.payloads, 1, failAt - 1)
      /\ Computed(p)
      /\ lastRunFile' = today
      /\ exitCode' = 2
      /\ phase' = "exited"
      /\ UNCHANGED <<seenFile, process, besideMain>>

\* main, when the webhook refuses one of the payloads, number failAt: exit 2
\* on the spot, neither file is written.
MainPostFailed(table) ==
  LET p == Pass(table)
  IN  /\ phase = "running"
      /\ \E failAt \in 1..Len(p.payloads) :
            delivered' = SubSeq(p.payloads, 1, failAt - 1)
      /\ Computed(p)
      /\ exitCode' = 2
      /\ phase' = "exited"
      /\ UNCHANGED <<persisted, process, besideMain>>

Next ==
  \/ \E force \in BOOLEAN, nextDay \in BOOLEAN : Start(force, nextDay)
  \/ \E table \in Tables : MainNothingToPost(table)
  \/ \E table \in Tables : MainPosted(table)
  \/ \E table \in Tables : MainPostFailed(table)

Spec == Init /\ [][Next]_vars

\* ---------------------------------------------- chunkLines, call by call
ChunkInit ==
  /\ MainIdle
  /\ KeyIdle
  /\ AlertIdle
  /\ TrackIdle
  /\ ResultsIdle
  /\ chHeader \in ChunkHeaders
  /\ chLines \in ChunkLineLists
  /\ chMaxLen \in 1..MaxBudget
  /\ chChunks = <<>>
  /\ chDone = FALSE

ChunkCall ==
  /\ ~chDone
  /\ chChunks' = chunkLines(chHeader, chLines, chMaxLen)
  /\ chDone' = TRUE
  /\ UNCHANGED <<chHeader, chLines, chMaxLen, engVars, keyVars, alertVars, trackVars, resultVars>>

ChunkNext == ChunkCall

SpecChunk == ChunkInit /\ [][ChunkNext]_vars

\* ------------------------------------------------- keyify, record by record
KeyInit ==
  /\ MainIdle
  /\ ChunkIdle
  /\ AlertIdle
  /\ TrackIdle
  /\ ResultsIdle
  /\ kRecA \in KeyRecordsA
  /\ kRecB \in KeyRecordsB
  /\ kKeyA = <<>>
  /\ kKeyB = <<>>
  /\ kDone = FALSE

KeyifyCalls ==
  /\ ~kDone
  /\ kKeyA' = keyify(kRecA)
  /\ kKeyB' = keyify(kRecB)
  /\ kDone' = TRUE
  /\ UNCHANGED <<kRecA, kRecB, engVars, chunkVars, alertVars, trackVars, resultVars>>

KeyNext == KeyifyCalls

SpecKey == KeyInit /\ [][KeyNext]_vars

\* ------------------------------------------------- race alerts, run by run
besideAlerts == <<engVars, chunkVars, keyVars, trackVars, resultVars>>

AlertInit == MainIdle /\ ChunkIdle /\ KeyIdle /\ AlertIdle /\ TrackIdle /\ ResultsIdle

\* The engagements scraper (saveDPPRaces) rewrites dpp_races.json, or the
\* file is left unreadable.
DppWritten(file) ==
  /\ aDppFile' = file
  /\ aDppFresh' = TRUE
  /\ UNCHANGED <<aStored, aSent, aNow, aRuns, aFetchOk, aUpdated, aTried,
                 aPosted, besideAlerts>>

\* Five minutes pass; dpp_races.json may get older than 30 minutes.
Tick(stale) ==
  /\ aNow.minutes < StartMinute + 5 * MaxTicks
  /\ aNow' = [aNow EXCEPT !.minutes = @ + 5]
  /\ aDppFresh' = (aDppFresh /\ ~stale)
  /\ UNCHANGED <<aDppFile, aStored, aSent, aRuns, aFetchOk, aUpdated, aTried,
                 aPosted, besideAlerts>>

\* The next day begins; dpp_races.json is then more than 30 minutes old.
NextDay ==
  /\ aNow.date = 1
  /\ aNow' = [date |-> 2, minutes |-> StartMinute]
  /\ aDppFresh' = FALSE
  /\ UNCHANGED <<aDppFile, aStored, aSent, aRuns, aFetchOk, aUpdated, aTried,
                 aPosted, besideAlerts>>

\* The channel after the posts of a run.
Delivered(posted, tried) ==
  [u \in RaceUrls |->
     posted[u] + Cardinality({ i \in 1..Len(tried) : tried[i].ok /\ tried[i].raceUrl = u })]

\* The horses a run may post an alert for: those of the stored races.
Postable(stored) == [HorsesOf(stored) -> BOOLEAN]

\* A run that finds dpp_races.json fresh: updateRaceData, then
\* checkAndSendAlerts.  fetchOk tells the fetches that give a time, postOk
\* the posts the webhook answers ok.
RunUpdateMode ==
  /\ aRuns < MaxAlertRuns
  /\ aDppFile.status # "missing" /\ aDppFresh
  /\ \E fetchOk \in [UrlsOf(aDppFile.races) -> BOOLEAN] :
       LET parisTime == getParisTime(aNow)
           stored == updateRaceData(aDppFile, aStored, parisTime, fetchOk)
       IN  /\ aStored' = stored
           /\ aFetchOk' = fetchOk
           /\ aUpdated' = updateRaceDataReturns(aDppFile)
           /\ \E postOk \in Postable(stored) :
                LET check == checkAndSendAlerts(aSent, stored, parisTime, postOk)
                IN  /\ aSent' = check.sentFile
                    /\ aTried' = check.tried
                    /\ aPosted' = Delivered(aPosted, check.tried)
  /\ aRuns' = aRuns + 1
  /\ UNCHANGED <<aDppFile, aDppFresh, aNow, besideAlerts>>

\* A run that finds dpp_races.json old or missing: checkAndSendAlerts only.
RunAlertMode ==
  /\ aRuns < MaxAlertRuns
  /\ aDppFile.status = "missing" \/ ~aDppFresh
  /\ \E postOk \in Postable(aStored) :
       LET check == checkAndSendAlerts(aSent, aStored, getParisTime(aNow), postOk)
       IN  /\ aSent' = check.sentFile
           /\ aTried' = check.tried
           /\ aPosted' = Delivered(aPosted, check.tried)
  /\ aFetchOk' = <<>>
  /\ aUpdated' = "not called"
  /\ aRuns' = aRuns + 1
  /\ UNCHANGED <<aDppFile, aDppFresh, aStored, aNow, besideAlerts>>

AlertNext ==
  \/ \E file \in { DppFile("ok", l) : l \in DppLists } \cup { DppFile("corrupt", <<>>) } :
       DppWritten(file)
  \/ \E stale \in BOOLEAN : Tick(stale)
  \/ NextDay
  \/ RunUpdateMode
  \/ RunAlertMode

SpecAlerts == AlertInit /\ [][AlertNext]_vars

\* --------------------------------------------- tracking reports, run by run
besideTrack == <<engVars, chunkVars, keyVars, alertVars, resultVars>>

TrackInit == MainIdle /\ ChunkIdle /\ KeyIdle /\ AlertIdle /\ TrackIdle /\ ResultsIdle

trackLocals == <<tLoaded, tPostedLoaded, tSkippedPosted, tSkippedOld, tChecked,
                 tFound, tStillPending, tRes, tExit>>

\* A completed run of the results scraper queues the races of its new
\* results in pending_tracking.json.
TrackQueue(batch) ==
  /\ Len(QueueTracking(loadPendingTracking(pendingFile), batch, tNow)) <= MaxPending
  /\ pendingFile' =
       savePendingTracking(QueueTracking(loadPendingTracking(pendingFile), batch, tNow))
  /\ UNCHANGED <<postedFile, tNow, tRuns, trackLocals, tDelivered, besideTrack>>

\* Half an hour passes.
TrackTick ==
  /\ tNow < 30 * MaxTrackTicks
  /\ tNow' = tNow + 30
  /\ UNCHANGED <<pendingFile, postedFile, tRuns, trackLocals, tDelivered, besideTrack>>

\* The channel after the posts of a run: found and their outcomes.
TrackDelivered(channel, found, res) ==
  [u \in TrackUrls |->
     channel[u] + Cardinality({ i \in 1..Len(res) :
                                  res[i] = "ok" /\ found[i].race.raceUrl = u })]

\* The locals of a run after its loop over pending.
TrackLooped(l) ==
  /\ tLoaded' = loadPendingTracking(pendingFile)
  /\ tPostedLoaded' = loadPostedTracking(postedFile)
  /\ tSkippedPosted' = l.skippedPosted
  /\ tSkippedOld' = l.skippedOld
  /\ tChecked' = l.checked
  /\ tFound' = l.found
  /\ tStillPending' = l.stillPending

\* main with an empty queue: exit 0 before anything is checked or saved.
TrackRunNothingPending ==
  /\ tRuns < MaxTrackRuns
  /\ loadPendingTracking(pendingFile) = <<>>
  /\ tRuns' = tRuns + 1
  /\ tLoaded' = <<>>
  /\ tPostedLoaded' = loadPostedTracking(postedFile)
  /\ tSkippedPosted' = <<>>
  /\ tSkippedOld' = <<>>
  /\ tChecked' = <<>>
  /\ tFound' = <<>>
  /\ tStillPending' = <<>>
  /\ tRes' = <<>>
  /\ tExit' = "nothing pending"
  /\ UNCHANGED <<pendingFile, postedFile, tNow, tDelivered, besideTrack>>

\* main, to its end: the loop over pending, one post for each report found
\* (a refused post is logged, nothing more), then both files are saved.
TrackRunDone ==
  /\ tRuns < MaxTrackRuns
  /\ loadPendingTracking(pendingFile) # <<>>
  /\ \E has \in [CheckIdx(pendingFile, postedFile, tNow) -> BOOLEAN] :
       LET l == TrackLoop(loadPendingTracking(pendingFile),
                          loadPostedTracking(postedFile), tNow, has)
       IN  /\ TrackLooped(l)
           /\ \E res \in PostAnswers(Len(l.found)) :
                /\ tRes' = res
                /\ tDelivered' = TrackDelivered(tDelivered, l.found, res)
           /\ pendingFile' = savePendingTracking(l.stillPending)
           /\ postedFile' = savePostedTracking(l.posted)
  /\ tRuns' = tRuns + 1
  /\ tExit' = "done"
  /\ UNCHANGED <<tNow, besideTrack>>

\* main, when fetch throws at post number k (no connection to the webhook):
\* the loop has no try, the rejection ends the process before the saves.
TrackRunCrashed ==
  /\ tRuns < MaxTrackRuns
  /\ loadPendingTracking(pendingFile) # <<>>
  /\ \E has \in [CheckIdx(pendingFile, postedFile, tNow) -> BOOLEAN] :
       LET l == TrackLoop(loadPendingTracking(pendingFile),
                          loadPostedTracking(postedFile), tNow, has)
       IN  /\ TrackLooped(l)
           /\ \E k \in 1..Len(l.found) : \E res \in PostAnswers(k - 1) :
                /\ tRes' = Append(res, "threw")
                /\ tDelivered' = TrackDelivered(tDelivered, l.found, res)
  /\ tRuns' = tRuns + 1
  /\ tExit' = "crashed"
  /\ UNCHANGED <<pendingFile, postedFile, tNow, besideTrack>>

TrackNext ==
  \/ \E batch \in TrackBatches : TrackQueue(batch)
  \/ TrackTick
  \/ TrackRunNothingPending
  \/ TrackRunDone
  \/ TrackRunCrashed

SpecTrack == TrackInit /\ [][TrackNext]_vars

\* ---------------------------------------------------- results, run by run
\* What a run of the results scraper does not touch: pending_tracking.json
\* is the one file it shares with the tracking checker.
besideResults == <<engVars, chunkVars, keyVars, alertVars, postedFile, tNow, tRuns,
                   trackLocals, tDelivered>>

ResultsInit == MainIdle /\ ChunkIdle /\ KeyIdle /\ AlertIdle /\ TrackIdle /\ ResultsIdle

\* The locals of a run as the process leaves them.
ResultsComputed(force, l) ==
  /\ rClock' = rClock + 1
  /\ rFORCE_POST' = force
  /\ rResults' = l.results
  /\ rNewResults' = l.newResults

\* main, when dpp_races.json lists no race today and FORCE_POST is off: exit
\* 0 before anything is loaded.
ResultsSkipped(force, dppToday) ==
  /\ rClock < MaxResultRuns
  /\ SkipsScrape(dppToday, force)
  /\ rClock' = rClock + 1
  /\ rFORCE_POST' = force
  /\ rResults' = <<>>
  /\ rNewResults' = <<>>
  /\ rPosted' = 0
  /\ rExit' = 0
  /\ UNCHANGED <<rSeenFile, rHistoryFile, pendingFile, besideResults>>

\* main, when no result is new: race_history.json is written only when it
\* is empty (and stays empty), the store is saved, exit 0.
ResultsNothingNew(force, page) ==
  LET l == ResultsLocals(page, rSeenFile, rHistoryFile, force, rClock + 1)
  IN  /\ rClock < MaxResultRuns
      /\ \E dppToday \in DppToday : ~SkipsScrape(dppToday, force)
      /\ l.newResults = <<>>
      /\ ResultsComputed(force, l)
      /\ rHistoryFile' = IF loadRaceHistory(rHistoryFile) = <<>>
                         THEN saveRaceHistory(<<>>) ELSE rHistoryFile
      /\ rSeenFile' = saveSeenResults(l.seen)
      /\ rPosted' = 0
      /\ rExit' = 0
      /\ UNCHANGED <<pendingFile, besideResults>>

\* main, when every post is accepted: the history is saved before the posts,
\* the store and the tracking queue after them.
ResultsPosted(force, page) ==
  LET l == ResultsLocals(page, rSeenFile, rHistoryFile, force, rClock + 1)
  IN  /\ rClock < MaxResultRuns
      /\ \E dppToday \in DppToday : ~SkipsScrape(dppToday, force)
      /\ l.newResults # <<>>
      /\ ResultsComputed(force, l)
      /\ rHistoryFile' = saveRaceHistory(l.raceHistory)
      /\ rPosted' = Len(l.newResults)
      /\ rSeenFile' = saveSeenResults(l.seen)
      /\ pendingFile' = savePendingTracking(
                          QueueTracking(loadPendingTracking(pendingFile),
                                        l.newResults, rClock + 1))
      /\ rExit' = 0
      /\ UNCHANGED besideResults

\* main, when the webhook refuses post number failAt: exit 2 on the spot,
\* after the history was saved and before the store and the queue are.
ResultsPostFailed(force, page) ==
  LET l == ResultsLocals(page, rSeenFile, rHistoryFile, force, rClock + 1)
  IN  /\ rClock < MaxResultRuns
      /\ \E dppToday \in DppToday : ~SkipsScrape(dppToday, force)
      /\ \E failAt \in 1..Len(l.newResults) : rPosted' = failAt - 1
      /\ ResultsComputed(force, l)
      /\ rHistoryFile' = saveRaceHistory(l.raceHistory)
      /\ rExit' = 2
      /\ UNCHANGED <<rSeenFile, pendingFile, besideResults>>

ResultsNext ==
  \/ \E force \in BOOLEAN, dppToday \in DppToday : ResultsSkipped(force, dppToday)
  \/ \E force \in BOOLEAN, page \in ResultPages :
       ResultsNothingNew(force, page)
  \/ \E force \in BOOLEAN, page \in ResultPages :
       ResultsPosted(force, page)
  \/ \E force \in BOOLEAN, page \in ResultPages :
       ResultsPostFailed(force, page)

SpecResults == ResultsInit /\ [][ResultsNext]_vars

\* ================================================================== claims
Elems(s) == { s[i] : i \in 1..Len(s) }
KeysOf(rs) == { KeyOf(rs[i]) : i \in 1..Len(rs) }
ChangedRowsOf(cs) == [i \in 1..Len(cs) |-> cs[i].row]
DistinctKeys(rs) == \A i, j \in 1..Len(rs) : KeyOf(rs[i]) = KeyOf(rs[j]) => i = j
Exited == phase = "exited"

\* The positions of rows that hold the first row of their key.
FirstOccurrences ==
  {i \in 1..Len(rows) : \A j \in 1..(i - 1) : KeyOf(rows[j]) # KeyOf(rows[i])}

\* C1: the scraped batch is de-duplicated by key keeping the first occurrence
\* of each key in the original order, and a later row with the key of an
\* earlier one never appears in the new, changed or PARTANTS lists.
C1_DedupKeepsFirst ==
  Exited =>
    /\ unique = SubSeqAt(rows, FirstOccurrences)
    /\ \A list \in {newRows, ChangedRowsOf(changedRows), declaredParticipants} :
         /\ DistinctKeys(list)
         /\ \A r \in Elems(list) : \E i \in FirstOccurrences : rows[i] = r

C1_Witness ==
  /\ Exited
  /\ Len(rows) = 2
  /\ KeyOf(rows[1]) = KeyOf(rows[2])
  /\ rows[1] # rows[2]
  /\ IsDPP(rows[2].statut)
  /\ unique = <<rows[1]>>
  /\ newRows = <<rows[1]>>
  /\ declaredParticipants = <<>>

\* C2: with force off, a de-duplicated row whose key is not in the loaded
\* store is new and not changed, and the store gets an entry for its key
\* that holds the row's statut.
C2_AbsentKeyIsNew ==
  (Exited /\ ~FORCE_POST) =>
    \A r \in Elems(unique) :
      ~MapHas(seenLoaded, KeyOf(r)) =>
        /\ r \in Elems(newRows)
        /\ KeyOf(r) \notin KeysOf(ChangedRowsOf(changedRows))
        /\ MapHas(seen, KeyOf(r))
        /\ MapGet(seen, KeyOf(r)).statut = r.statut

C2_Witness ==
  /\ Exited
  /\ ~FORCE_POST
  /\ seenLoaded # <<>>
  /\ \E r \in Elems(unique) :
       /\ ~MapHas(seenLoaded, KeyOf(r))
       /\ newRows = <<r>>
       /\ MapGet(seen, KeyOf(r)).statut = r.statut

\* C3: with force off, a de-duplicated row whose key is stored with another
\* statut is changed and not new, its changed entry carries as oldStatut the
\* statut stored before the run, and the store entry gets the row's statut.
C3_OtherStatutIsChanged ==
  (Exited /\ ~FORCE_POST) =>
    \A r \in Elems(unique) :
      (MapHas(seenLoaded, KeyOf(r)) /\ MapGet(seenLoaded, KeyOf(r)).statut # r.statut) =>
        /\ KeyOf(r) \notin KeysOf(newRows)
        /\ [row |-> r, oldStatut |-> MapGet(seenLoaded, KeyOf(r)).statut]
             \in Elems(changedRows)
        /\ \A c \in Elems(changedRows) :
             KeyOf(c.row) = KeyOf(r) =>
               c.oldStatut = MapGet(seenLoaded, KeyOf(r)).statut
        /\ MapGet(seen, KeyOf(r)).statut = r.statut

C3_Witness ==
  /\ Exited
  /\ ~FORCE_POST
  /\ \E r \in Elems(unique) :
       /\ MapHas(seenLoaded, KeyOf(r))
       /\ MapGet(seenLoaded, KeyOf(r)).statut = ENG
       /\ r.statut = DPP
       /\ changedRows = <<[row |-> r, oldStatut |-> ENG]>>
       /\ MapGet(seen, KeyOf(r)).statut = DPP

\* C4: with force off, a de-duplicated row whose key is stored with the same
\* statut is neither new nor changed; its store entry keeps the statut and
\* its last-seen time becomes the time of this run.
C4_SameStatutRefreshesOnly ==
  (Exited /\ ~FORCE_POST) =>
    \A r \in Elems(unique) :
      (MapHas(seenLoaded, KeyOf(r)) /\ MapGet(seenLoaded, KeyOf(r)).statut = r.statut) =>
        /\ KeyOf(r) \notin KeysOf(newRows)
        /\ KeyOf(r) \notin KeysOf(ChangedRowsOf(changedRows))
        /\ MapGet(seen, KeyOf(r)).statut = MapGet(seenLoaded, KeyOf(r)).statut
        /\ MapGet(seen, KeyOf(r)).last = clock

C4_Witness ==
  /\ Exited
  /\ ~FORCE_POST
  /\ newRows = <<>>
  /\ changedRows = <<>>
  /\ \E r \in Elems(unique) :
       /\ MapHas(seenLoaded, KeyOf(r))
       /\ MapGet(seenLoaded, KeyOf(r)).statut = r.statut
       /\ MapGet(seenLoaded, KeyOf(r)).last < clock
       /\ MapGet(seen, KeyOf(r)).last = clock

\* C5: with force off, reconciling the same batch again against the store
\* the pass produced yields empty new and changed lists.
C5_SecondPassIsEmpty ==
  (Exited /\ ~FORCE_POST) =>
    LET again == Classify(Dedupe(rows), seen, FALSE, clock + 1)
    IN  again.newRows = <<>> /\ again.changedRows = <<>>

C5_Witness ==
  /\ Exited
  /\ ~FORCE_POST
  /\ changedRows # <<>>
  /\ Len(rows) > Len(unique)
  /\ rows[1].statut # rows[2].statut
  /\ Classify(Dedupe(rows), seen, FALSE, clock + 1).newRows = <<>>

\* C6: with force on, every row of the de-duplicated batch is new and the
\* changed list is empty, whatever the store holds.
C6_ForceMakesAllNew ==
  (Exited /\ FORCE_POST) => (newRows = unique /\ changedRows = <<>>)

C6_Witness ==
  /\ Exited
  /\ FORCE_POST
  /\ Len(unique) = 2
  /\ newRows = unique
  /\ \A r \in Elems(unique) :
       MapHas(seenLoaded, KeyOf(r)) /\ MapGet(seenLoaded, KeyOf(r)).statut = r.statut

\* The keys and statut values of a store, in store order.
KeysAndStatuts(map) == [i \in 1..Len(map) |-> <<map[i].k, map[i].v.statut>>]

\* C7: the keys and statut values of the store after the pass are those of
\* the store the pass produces from the same batch and the same loaded store
\* with the force switch the other way round.
C7_ForceLeavesStoreAlike ==
  Exited =>
    KeysAndStatuts(seen)
      = KeysAndStatuts(Classify(unique, seenLoaded, ~FORCE_POST, clock).seen)

C7_Witness ==
  /\ Exited
  /\ FORCE_POST
  /\ Len(unique) = 2
  /\ MapHas(seenLoaded, KeyOf(unique[1]))
  /\ MapGet(seenLoaded, KeyOf(unique[1])).statut # unique[1].statut
  /\ ~MapHas(seenLoaded, KeyOf(unique[2]))
  /\ Classify(unique, seenLoaded, FALSE, clock).changedRows # <<>>

\* C8: on the first run of a day the PARTANTS list is exactly the DP-P rows
\* of the de-duplicated batch, in batch order, stored and unchanged rows
\* included.
C8_FirstRunListsEveryDPP ==
  (Exited /\ isFirstRunToday) =>
    declaredParticipants
      = SubSeqAt(unique, {i \in 1..Len(unique) : IsDPP(unique[i].statut)})

C8_Witness ==
  /\ Exited
  /\ isFirstRunToday
  /\ ~FORCE_POST
  /\ newRows = <<>>
  /\ changedRows = <<>>
  /\ Len(unique) = 2
  /\ Len(declaredParticipants) = 1
  /\ MapHas(seenLoaded, KeyOf(declaredParticipants[1]))
  /\ MapGet(seenLoaded, KeyOf(declaredParticipants[1])).statut
       = declaredParticipants[1].statut

\* C9: a save of a store that outgrew the cap keeps exactly the SeenCap most
\* recently updated entries, a stored key observed again counting as
\* updated: no entry is dropped while an entry updated less recently stays.
C9_SaveKeepsMostRecentlyUpdated ==
  (Exited /\ exitCode = 0) =>
    /\ Len(seenFile) = IF Len(seen) <= SeenCap THEN Len(seen) ELSE SeenCap
    /\ Elems(seenFile) \subseteq Elems(seen)
    /\ \A dropped \in Elems(seen) \ Elems(seenFile), kept \in Elems(seenFile) :
         kept.v.last >= dropped.v.last

\* C10: the store holds at most one entry per key; the pass leaves the entry
\* of every key that is not in the batch as it was, and a stored entry is
\* gone after a run only when the save dropped it for the cap.
C10_OneEntryPerKeyAndFrame ==
  /\ \A map \in {seenFile, seenLoaded, seen} :
       \A i, j \in 1..Len(map) : map[i].k = map[j].k => i = j
  /\ Exited =>
       \A e \in Elems(seenLoaded) :
         /\ MapHas(seen, e.k)
         /\ e.k \notin KeysOf(rows) => e \in Elems(seen)
         /\ (e.k \notin KeysOf(rows) /\ MapHas(seenFile, e.k)) => e \in Elems(seenFile)
         /\ ~MapHas(seenFile, e.k) =>
              /\ exitCode = 0
              /\ Len(seen) > SeenCap
              /\ seenFile = SubSeq(seen, Len(seen) - SeenCap + 1, Len(seen))

C10_Witness ==
  /\ Exited
  /\ exitCode = 0
  /\ Len(seen) > SeenCap
  /\ \E e \in Elems(seenLoaded) : e.k \notin KeysOf(rows) /\ e \in Elems(seenFile)
  /\ \E e \in Elems(seenLoaded) : ~MapHas(seenFile, e.k)

\* The positions of the page table whose row has a horse, a date and a race
\* or a track once its cells are normalised.
ValidPositions ==
  {i \in 1..Len(pageTable) :
     LET rec == ScrapeRow(pageTable[i])
     IN  rec.horse # <<>> /\ rec.date # <<>> /\ (rec.race # <<>> \/ rec.track # <<>>)}

\* C11 as claimed: when a scraped row lacks the mandatory identity fields the
\* whole batch is rejected with an error, and no row of the batch is
\* classified, stored or posted.
C11_InvalidRowRejectsBatch ==
  (Exited /\ Cardinality(ValidPositions) < Len(pageTable)) =>
    /\ exitCode # 0
    /\ newRows = <<>>
    /\ changedRows = <<>>
    /\ declaredParticipants = <<>>
    /\ delivered = <<>>
    /\ seen = seenLoaded
    /\ seenFile = seenLoaded

\* C11 as amended: a row that lacks the mandatory identity fields is left out
\* by scrape() and counted as skipped; it is never classified, stored or
\* posted, and the other rows of the table make up the batch, in table order.
C11_InvalidRowsSkipped ==
  Exited =>
    /\ rows = SubSeqAt([i \in 1..Len(pageTable) |-> ScrapeRow(pageTable[i])],
                       ValidPositions)
    /\ skippedCount = Len(pageTable) - Cardinality(ValidPositions)
    /\ \A r \in Elems(unique) \cup Elems(newRows) \cup Elems(declaredParticipants)
                 \cup Elems(ChangedRowsOf(changedRows)) :
         r.horse # <<>> /\ r.date # <<>> /\ (r.race # <<>> \/ r.track # <<>>)
    /\ MapKeys(seen) \ MapKeys(seenLoaded)
         = {KeyOf(ScrapeRow(pageTable[i])) : i \in ValidPositions} \ MapKeys(seenLoaded)

C11_Witness ==
  /\ Exited
  /\ exitCode = 0
  /\ Len(pageTable) = 2
  /\ skippedCount = 1
  /\ Len(rows) = 1
  /\ newRows = rows
  /\ delivered # <<>>
  /\ Len(seenFile) = Len(seenLoaded) + 1

\* The payloads of the run the scheduler starts next, on the same day or the
\* day after, when the page shows the same table and FORCE_POST is the same.
RetryPayloads(nextDay) ==
  MainLocals(pageTable, seenFile, lastRunFile,
             IF nextDay THEN today + 1 ELSE today, FORCE_POST, clock + 1).payloads

\* C12: when a post fails after earlier chunks of the run were delivered, the
\* next run over the same scraped rows has those chunks in its payloads
\* again: unchanged when it runs the same day, and with at least the same
\* lines in the same section when it runs the day after; and a run posts
\* every payload it built, nothing filters out what was delivered before.
C12_RetryDeliversAgain ==
  /\ (Exited /\ exitCode = 2 /\ delivered # <<>>) =>
       /\ Len(delivered) <= Len(RetryPayloads(FALSE))
       /\ \A i \in 1..Len(delivered) : RetryPayloads(FALSE)[i] = delivered[i]
       /\ \A i \in 1..Len(delivered) :
            \E c \in Elems(RetryPayloads(TRUE)) :
              /\ c.section = delivered[i].section
              /\ Elems(delivered[i].lines) \subseteq Elems(c.lines)
  /\ (Exited /\ exitCode = 0) =>
       delivered = Payloads(today, declaredParticipants, newRows, changedRows)

C12_Witness ==
  /\ Exited
  /\ exitCode = 2
  /\ Len(delivered) = 2
  /\ seenLoaded # <<>>
  /\ Len(RetryPayloads(FALSE)) = 3
  /\ SubSeq(RetryPayloads(FALSE), 1, 2) = delivered

\* C18: a run in which a post is refused (fewer payloads delivered than
\* built) ends with exit code 2 and writes neither seen.json nor
\* last_run.json: both files are as they were when the run loaded them.
C18_FailedPostWritesNothing ==
  [][(/\ phase = "running"
      /\ phase' = "exited"
      /\ Len(delivered') <
           Len(Payloads(today, declaredParticipants', newRows', changedRows')))
       => (/\ exitCode' = 2
           /\ seenFile' = seenFile
           /\ lastRunFile' = lastRunFile)]_vars

C18_Witness ==
  /\ Exited
  /\ exitCode = 2
  /\ delivered # <<>>
  /\ seenLoaded # <<>>
  /\ seen # seenLoaded
  /\ seenFile = seenLoaded
  /\ lastRunFile # 0
  /\ lastRunFile # today

\* C19: a run whose new, changed and PARTANTS lists are all empty posts
\* nothing, saves the store with its refreshed last-seen times and the date
\* of the run, and exits with code 0.
C19_NothingToPostStillSaves ==
  (Exited /\ newRows = <<>> /\ changedRows = <<>> /\ declaredParticipants = <<>>) =>
    /\ delivered = <<>>
    /\ exitCode = 0
    /\ seenFile = seen
    /\ \A i \in 1..Len(unique) : MapGet(seenFile, KeyOf(unique[i])).last = clock
    /\ lastRunFile = today

C19_Witness ==
  /\ Exited
  /\ newRows = <<>>
  /\ changedRows = <<>>
  /\ declaredParticipants = <<>>
  /\ isFirstRunToday
  /\ unique # <<>>
  /\ seenFile # seenLoaded
  /\ MapGet(seenLoaded, KeyOf(unique[1])).last < clock
  /\ MapGet(seenFile, KeyOf(unique[1])).last = clock
  /\ lastRunFile = today

\* ------------------------------------------------------ claims: chunkLines
\* text.split('\n')
RECURSIVE SplitLines(_, _)
SplitLines(text, cur) ==
  IF text = <<>> THEN <<cur>>
  ELSE IF Head(text) = "\n" THEN <<cur>> \o SplitLines(Tail(text), <<>>)
  ELSE SplitLines(Tail(text), Append(cur, Head(text)))

StartsWithHeader(chunk) ==
  /\ Len(chunk) >= Len(chHeader) + 1
  /\ SubSeq(chunk, 1, Len(chHeader) + 1) = chHeader \o <<"\n">>

\* The lines a chunk carries: those of its text after the header line.
LinesOfChunk(chunk) ==
  SplitLines(SubSeq(chunk, Len(chHeader) + 2, Len(chunk)), <<>>)

RECURSIVE LinesOfChunks(_)
LinesOfChunks(chunks) ==
  IF chunks = <<>> THEN <<>>
  ELSE LinesOfChunk(Head(chunks)) \o LinesOfChunks(Tail(chunks))

EveryLineFits ==
  \A i \in 1..Len(chLines) : Len(chHeader) + Len(chLines[i]) + 2 <= chMaxLen

\* C13: when every line fits with the header, every chunk is at most maxLen
\* long and is the header followed by whole, consecutive input lines.
C13_ChunksWithinBudget ==
  (chDone /\ EveryLineFits) =>
    \A n \in 1..Len(chChunks) :
      /\ Len(chChunks[n]) <= chMaxLen
      /\ StartsWithHeader(chChunks[n])
      /\ \E i \in 1..Len(chLines) : \E j \in i..Len(chLines) :
           LinesOfChunk(chChunks[n]) = SubSeq(chLines, i, j)

C13_Witness ==
  /\ chDone
  /\ EveryLineFits
  /\ chHeader # <<>>
  /\ Len(chLines) = 3
  /\ Len(chChunks) = 2
  /\ Len(LinesOfChunk(chChunks[1])) = 2
  /\ Len(chChunks[1]) = chMaxLen - 1

\* C14 as claimed: for every header, line list and maxLen, the lines the
\* chunks carry, read in chunk order, are exactly the input lines.
C14_ChunksCarryTheLines ==
  chDone =>
    /\ \A n \in 1..Len(chChunks) : StartsWithHeader(chChunks[n])
    /\ LinesOfChunks(chChunks) = chLines

\* ---------------------------------------------------------- claims: keyify
\* The words of a text: its maximal runs of non-blank characters.
RECURSIVE WordsFrom(_, _)
WordsFrom(text, cur) ==
  IF text = <<>> THEN (IF cur = <<>> THEN <<>> ELSE <<cur>>)
  ELSE IF IsSpace(Head(text))
       THEN (IF cur = <<>> THEN <<>> ELSE <<cur>>) \o WordsFrom(Tail(text), <<>>)
       ELSE WordsFrom(Tail(text), Append(cur, Head(text)))

WordsOf(text) == WordsFrom(text, <<>>)

\* Text a is text b up to letter case, blanks at either end and the length
\* of the runs of blanks inside.
SameButCaseAndBlanks(a, b) ==
  /\ Len(WordsOf(a)) = Len(WordsOf(b))
  /\ \A i \in 1..Len(WordsOf(a)) :
       /\ Len(WordsOf(a)[i]) = Len(WordsOf(b)[i])
       /\ \A j \in 1..Len(WordsOf(a)[i]) :
            LowerChar(WordsOf(a)[i][j]) = LowerChar(WordsOf(b)[i][j])

IdentityFields == {"horse", "date", "track", "race", "dist"}

\* C15: two records whose identity fields differ only in letter case, in
\* blanks at either end or in the length of inner runs of blanks get the
\* same key, whatever their statut and URLs.
C15_KeyIgnoresCaseAndBlanks ==
  (kDone /\ \A f \in IdentityFields : SameButCaseAndBlanks(kRecA[f], kRecB[f]))
    => kKeyA = kKeyB

C15_Witness ==
  /\ kDone
  /\ \A f \in IdentityFields : SameButCaseAndBlanks(kRecA[f], kRecB[f])
  /\ kRecA.horse = <<"a", " ", "a">>
  /\ kRecB.horse = <<"A", "\t", " ", "a">>
  /\ kRecB.track = <<" ", "t", "\t">>
  /\ kRecB.dist = <<"A", " ">>
  /\ kRecA.statut # kRecB.statut
  /\ kRecA.raceUrl # kRecB.raceUrl
  /\ kKeyA = kKeyB

\* An apostrophe-like character read as the ASCII apostrophe.
FoldApostrophe(c) == IF c \in {"'", "^"} THEN "'" ELSE c

SameButApostrophes(a, b) ==
  /\ Len(a) = Len(b)
  /\ \A i \in 1..Len(a) : FoldApostrophe(a[i]) = FoldApostrophe(b[i])

\* C16 as claimed: two records whose identity fields differ only in the
\* apostrophe variant they use get the same key.
C16_ApostropheVariantsShareKey ==
  (kDone /\ \A f \in IdentityFields : SameButApostrophes(kRecA[f], kRecB[f]))
    => kKeyA = kKeyB

\* ----------------------------------------------------- claims: race alerts
\* A step that is a run of the script in update mode with a readable list.
UpdateRunStep ==
  aRuns' = aRuns + 1 /\ aDppFresh /\ aDppFile.status = "ok"

\* The race was stored before the run, is still to come, is in the DP-P
\* list of the run, and the fetch of its post time failed in the run.
FetchFailedFor(race) ==
  /\ KeepsRace(race, getParisTime(aNow))
  /\ \E i \in 1..Len(aDppFile.races) :
       /\ aDppFile.races[i].raceUrl = race.raceUrl
       /\ aDppFile.races[i].horse = race.horse
  /\ ~aFetchOk'[race.raceUrl]

\* C17 as claimed: after updateRaceData a race that was stored with a post
\* time and whose fetch failed in this run is still stored with that time.
C17_FailedFetchKeepsStored ==
  [][UpdateRunStep =>
       \A i \in 1..Len(aStored) :
         FetchFailedFor(aStored[i]) =>
           \E j \in 1..Len(aStored') : aStored'[j] = aStored[i]]_vars

\* C20 as claimed: over any sequence of runs at most one alert per race URL
\* is delivered.
C20_AtMostOneAlertPerUrl ==
  \A u \in RaceUrls : aPosted[u] <= 1

RunStep == aRuns' = aRuns + 1

\* C20: a URL is in sent_alerts.json only if an alert for it was delivered;
\* a delivered URL is in the file unless the file is full (the cap cut it);
\* a run posts no URL that is in the file and delivers a URL at most once;
\* a URL whose posts all failed stays out of the file, and a run tries every
\* stored race of today that is in its window and not in the file.
C20_OneAlertWhileInSentAlerts ==
  /\ [](\A i \in 1..Len(aSent) : aPosted[aSent[i]] >= 1)
  /\ [](\A u \in RaceUrls :
          aPosted[u] >= 1 => (SetHas(aSent, u) \/ Len(aSent) = AlertsCap))
  /\ [][RunStep =>
          /\ \A i \in 1..Len(aTried') : ~SetHas(aSent, aTried'[i].raceUrl)
          /\ \A u \in RaceUrls :
               /\ aPosted'[u] <= aPosted[u] + 1
               /\ aPosted'[u] = aPosted[u] => ~SetHas(aSent', u) \/ SetHas(aSent, u)
          /\ \A i \in 1..Len(aStored') :
               ( /\ aStored'[i].date = aNow.date
                 /\ InAlertWindow(aStored'[i], getParisTime(aNow))
                 /\ ~SetHas(aSent, aStored'[i].raceUrl) )
               => \E j \in 1..Len(aTried') :
                    aTried'[j].raceUrl = aStored'[i].raceUrl]_vars

C20_Witness ==
  /\ aRuns >= 2
  /\ aPosted["r1"] = 1
  /\ SetHas(aSent, "r1")
  /\ \E i \in 1..Len(aStored) :
       aStored[i].raceUrl = "r1" /\ InAlertWindow(aStored[i], getParisTime(aNow))
  /\ aTried = <<[raceUrl |-> "r2", ok |-> FALSE]>>
  /\ ~SetHas(aSent, "r2")
  /\ aPosted["r2"] = 0

C22_UnreadableListKeepsStored ==
  [][/\ (RunStep /\ aDppFresh /\ aDppFile.status # "ok")
          => (aUpdated' = "false" /\ aStored' = aStored)
     /\ aStored' # aStored
          => (RunStep /\ aDppFresh /\ aDppFile.status = "ok" /\ aUpdated' = "true")]_vars

C22_Witness ==
  /\ aUpdated = "false"
  /\ aDppFile.status = "corrupt"
  /\ aStored # <<>>
  /\ \E i \in 1..Len(aStored) : KeepsRace(aStored[i], getParisTime(aNow))

\* ------------------------------------- claims: PARTANTS on later runs
\* The row is in the store with the statut it shows now.
StoredUnchanged(store, r) ==
  /\ MapHas(store, KeyOf(r))
  /\ MapGet(store, KeyOf(r)).statut = r.statut

\* The rows a run has in the lines of the payloads it built.
RowsInPayloads(dp, newRs, changedRs) ==
  Elems(dp) \cup Elems(newRs) \cup Elems(ChangedRowsOf(changedRs))

\* The stored DP-P rows of the batch that show the stored statut.
StoredUnchangedDPP ==
  { r \in Elems(unique) : IsDPP(r.statut) /\ StoredUnchanged(seenLoaded, r) }

PartantsFromNewOrChanged ==
  \A i \in 1..Len(declaredParticipants) :
    /\ IsDPP(declaredParticipants[i].statut)
    /\ declaredParticipants[i]
         \in Elems(newRows) \cup Elems(ChangedRowsOf(changedRows))

\* C24 as stated: on a run that is not the first of the day every PARTANTS
\* row is a DP-P row of the new or the changed list, and a DP-P row stored
\* with the same statut is in no payload of the run.
C24_LaterRunSkipsStoredDPP ==
  (Exited /\ ~isFirstRunToday) =>
    /\ PartantsFromNewOrChanged
    /\ StoredUnchangedDPP
         \cap RowsInPayloads(declaredParticipants, newRows, changedRows) = {}

\* C24, amended: on a run that is not the first of the day every PARTANTS
\* row is a DP-P row of the new or the changed list of that run; and when
\* FORCE_POST is off a DP-P row stored with the same statut is in no payload
\* of the run, while with FORCE_POST on it is in the new list and in
\* PARTANTS.
C24_LaterRunSkipsStoredDPPUnlessForced ==
  (Exited /\ ~isFirstRunToday) =>
    /\ PartantsFromNewOrChanged
    /\ ~FORCE_POST =>
         StoredUnchangedDPP
           \cap RowsInPayloads(declaredParticipants, newRows, changedRows) = {}
    /\ FORCE_POST =>
         StoredUnchangedDPP
           \subseteq Elems(newRows) \cap Elems(declaredParticipants)

C24_Witness ==
  /\ Exited
  /\ ~isFirstRunToday
  /\ ~FORCE_POST
  /\ Len(unique) = 2
  /\ StoredUnchangedDPP = {unique[1]}
  /\ declaredParticipants = <<unique[2]>>
  /\ changedRows = <<[row |-> unique[2], oldStatut |-> ENG]>>
  /\ newRows = <<>>
  /\ Len(delivered) = 2

\* The run the scheduler starts next on the same date, when the page shows
\* the same table.
NextRunSameDay(force) ==
  MainLocals(pageTable, seenFile, lastRunFile, today, force, clock + 1)

\* The stored, unchanged DP-P rows this run delivered in a PARTANTS chunk.
PostedStoredInPartants ==
  { r \in StoredUnchangedDPP :
      \E c \in Elems(delivered) : c.section = "PARTANTS" /\ r \in Elems(c.lines) }

\* The stored, unchanged DP-P rows in the PARTANTS list of the locals n.
StoredInPartantsOf(n) ==
  { r \in Elems(n.declaredParticipants) : StoredUnchanged(n.seenLoaded, r) }

\* C25 as stated: once a run of a date has posted, the next run of that date
\* has isFirstRunToday false, and a stored, unchanged DP-P row one run
\* delivered in PARTANTS is not in the PARTANTS list of the next run of the
\* date.
C25_PartantsOncePerDay ==
  (Exited /\ delivered # <<>>) =>
    \A force \in BOOLEAN :
      /\ ~NextRunSameDay(force).isFirstRunToday
      /\ PostedStoredInPartants
           \cap StoredInPartantsOf(NextRunSameDay(force)) = {}


\* ------------------------------------------------ claims: tracking reports
\* A step that is a run of check_tracking_reports.js.
TrackRunStep == tRuns' = tRuns + 1

Count(s, x) == Cardinality({ i \in 1..Len(s) : s[i] = x })

FoundRaces(found) == [i \in 1..Len(found) |-> found[i].race]

\* A race whose URL is in the posted set as loaded is logged as already
\* posted, its page is not checked, it is not found, no report of its URL
\* reaches the channel, and a run that gets to its saves leaves it out of
\* the saved queue.
PostedRaceIsDropped ==
  [][TrackRunStep =>
       \A i \in 1..Len(tLoaded') :
         SetHas(tPostedLoaded', tLoaded'[i].raceUrl) =>
           /\ tLoaded'[i] \in Elems(tSkippedPosted')
           /\ tLoaded'[i].raceUrl \notin Elems(tChecked')
           /\ tLoaded'[i] \notin Elems(FoundRaces(tFound'))
           /\ tDelivered'[tLoaded'[i].raceUrl] = tDelivered[tLoaded'[i].raceUrl]
           /\ tExit' = "done" => tLoaded'[i] \notin Elems(pendingFile')]_vars

\* After the loop every race of the loaded queue is in exactly one of the
\* four outcomes, as many times as it is in the queue; and what a completed
\* run saves as the queue is the races kept pending.
OutcomesPartitionQueue ==
  [][TrackRunStep =>
       /\ \A r \in Elems(tLoaded') :
            Count(tLoaded', r)
              = Count(tSkippedPosted', r) + Count(tSkippedOld', r)
                  + Count(FoundRaces(tFound'), r) + Count(tStillPending', r)
       /\ Len(tLoaded')
            = Len(tSkippedPosted') + Len(tSkippedOld') + Len(tFound')
                + Len(tStillPending')
       /\ tExit' = "done" => pendingFile' = tStillPending']_vars

\* C23 as stated: a pending race whose URL is in the posted set is removed
\* without a page check and without a post; across all runs at most one
\* tracking report reaches the channel for a race URL; and every race of the
\* loaded queue has exactly one of the outcomes already posted, too old,
\* found, still pending.
C23_OneReportPerRaceUrl ==
  /\ PostedRaceIsDropped
  /\ [](\A u \in TrackUrls : tDelivered[u] <= 1)
  /\ OutcomesPartitionQueue

\* C26: every report a run found is delivered with an ok answer, or its
\* race is in the pending queue after the run.
C26_FoundIsDeliveredOrKept ==
  [][TrackRunStep =>
       \A i \in 1..Len(tFound') :
         \/ i <= Len(tRes') /\ tRes'[i] = "ok"
         \/ tFound'[i].race \in Elems(pendingFile')]_vars

\* --------------------------------------------------------- claims: results
\* A step that is a run of scrape_results.js.
ResultsRunStep == rClock' = rClock + 1

ResultKeysOf(rs) == { ResultKey(rs[i]) : i \in 1..Len(rs) }

\* C27: in a run without FORCE_POST no two entries of newResults have the
\* same key, and no entry of newResults has a key that seen_results.json
\* holds when the run starts (a key a completed run saved and the cap has
\* not cut since).
C27_NewResultsOncePerKey ==
  [][(ResultsRunStep /\ ~rFORCE_POST') =>
       /\ \A i, j \in 1..Len(rNewResults') :
            ResultKey(rNewResults'[i]) = ResultKey(rNewResults'[j]) => i = j
       /\ ResultKeysOf(rNewResults') \cap MapKeys(loadSeenResults(rSeenFile)) = {}
       /\ \A i \in 1..Len(rResults') :
            \/ ResultKey(rResults'[i]) \in MapKeys(loadSeenResults(rSeenFile))
            \/ ResultKey(rResults'[i]) \in ResultKeysOf(rNewResults')]_vars

C27_Witness ==
  /\ rClock = 2
  /\ ~rFORCE_POST
  /\ rExit = 0
  /\ rResults = <<ResultOf(<<"a">>, "u1"), ResultOf(<<"B">>, "u1")>>
  /\ rNewResults = <<ResultOf(<<"B">>, "u1")>>
  /\ MapKeys(rSeenFile) = {ResultKey(ResultOf(<<"A">>, "u1")), ResultKey(ResultOf(<<"B">>, "u1"))}
  /\ Len(rHistoryFile) = 2
  /\ Len(pendingFile) = 1

\* No two entries of the history are of the same result.
DistinctHistory(h) ==
  \A i, j \in 1..Len(h) :
    (/\ h[i].horse = h[j].horse
     /\ h[i].date = h[j].date
     /\ h[i].track = h[j].track
     /\ h[i].distance = h[j].distance) => i = j

\* C28: a run without FORCE_POST, whether its posts are accepted or not,
\* leaves race_history.json with at most one entry for a result when it
\* found it so, and the key of every result it adds to the history is in
\* seen_results.json after the run.
C28_HistoryOncePerResult ==
  [][(ResultsRunStep /\ ~rFORCE_POST') =>
       /\ DistinctHistory(rHistoryFile) => DistinctHistory(rHistoryFile')
       /\ rHistoryFile' # rHistoryFile =>
            ResultKeysOf(rNewResults') \subseteq MapKeys(rSeenFile')]_vars

====
